---- MODULE Spec2Model ----
(***************************************************************************)
(* Model of the cars.com scraper: CarsScraper.scrape_search_page and its   *)
(* listing tasks (cars_scraper.py), BrowserManager.get_page                *)
(* (browser_manager.py), CarsScraper._extract_listing_urls and             *)
(* ListingExtractor.extract_listing (listing_extractor.py).                *)
(*                                                                         *)
(* CarListing, CarImage (car_listing.py) and ScraperConfig                 *)
(* (scraper_config.py) are modelled by what their validation accepts.      *)
(*                                                                         *)
(* The specifications of the module:                                       *)
(*   Spec              one scrape_search_page call with its tasks          *)
(*   SpecDownload      the same with save_images = True                    *)
(*   SpecUrls          _extract_listing_urls on a bounded search page      *)
(*   SpecExtract       extract_listing on a bounded listing page           *)
(*   SpecGallery       _extract_images on a bounded gallery                *)
(*   SpecAddImage      add_image calls on a record without images          *)
(*   SpecCarListing    CarListing(...) on bounded arguments                *)
(*   SpecScraperConfig ScraperConfig(...) on bounded arguments             *)
(*   SpecTitle         _parse_title on bounded headings                    *)
(*   SpecNumber        _parse_price and _parse_mileage on bounded texts    *)
(*   SpecCondition     _extract_condition on bounded page contents         *)
(*   SpecChain         one locator chain of extract_listing on a page      *)
(*   SpecBackoff       one task with several retries and backoffs          *)
(*   SpecFair          the call with fewer slots than tasks, run by a fair *)
(*                     event loop                                          *)
(***************************************************************************)
EXTENDS Naturals, Integers, Sequences, FiniteSets, TLC

VARIABLES
    cfg,          \* ScraperConfig of the scraper (fixed during the call)
    main,         \* position of scrape_search_page
    listing_urls, \* the truncated list of discovered URLs (ids)
    sem,          \* value of the asyncio.Semaphore
    pc,           \* position of each listing task
    attempts,     \* per task: loop iterations of scrape_listing entered
    ret,          \* per task: what the body of the using block ended with
    hist,         \* per task: the one way every attempt so far ended
    result,       \* per task: the entry of gather's result list
    leaked,       \* contexts still open although their get_page block exited
    completed,    \* ids of the tasks that returned a listing, in finishing order
    listings,     \* the list scrape_search_page returns
    page,         \* SpecUrls: the search page (sequence of anchors)
    urls,         \* SpecUrls: the list returned by _extract_listing_urls
    uphase,       \* SpecUrls: "idle" | "loaded" | "extracted"
    exPage,       \* SpecExtract: the listing page
    exResult,     \* SpecExtract: what extract_listing returned
    xphase,       \* SpecExtract: "idle" | "loaded" | "extracted"
    discovered,   \* the list _extract_listing_urls returned (line 83), kept
                  \* until scrape_search_page leaves its get_page block
    sleep,        \* per task: the seconds of the asyncio.sleep it is in, or 0
    dl,           \* per task: the images _download_images has handled
    last,         \* per task: how the body of the current attempt ended
    fn,           \* the function or object studied on its own, "idle" if none
    arg,          \* its input (for a record: the calls made on it so far)
    val           \* its result (for a record: the record's images)

orchVars == <<cfg, main, listing_urls, sem, pc, attempts, ret, hist, result,
              leaked, completed, listings, discovered, sleep, dl, last>>
urlVars == <<page, urls, uphase>>
exVars == <<exPage, exResult, xphase>>
fnVars == <<fn, arg, val>>
vars == <<cfg, main, listing_urls, sem, pc, attempts, ret, hist, result,
          leaked, completed, listings, discovered, sleep, dl, last, page, urls,
          uphase,
          exPage, exResult, xphase, fn, arg, val>>

-----------------------------------------------------------------------------
(* Bounds of the model *)

MaxTasks == 2
MaxK == 2
MaxRetries == 2
MaxLeaks == 1
MaxAnchors == 3
MaxImages == 3
MaxRun == 21
MaxVinPrefix == 2
MaxTitleLen == 8
MaxTextLen == 5
MaxWords == 3

-----------------------------------------------------------------------------
(* Values *)

NoneVal == [kind |-> "none", url |-> 0]
ExcVal == [kind |-> "exception", url |-> 0]
PendingVal == [kind |-> "pending", url |-> 0]
Listing(u) == [kind |-> "listing", url |-> u]

Min(a, b) == IF a <= b THEN a ELSE b

Range(s) == {s[i] : i \in 1..Len(s)}

\* ScraperConfig: max_concurrent_pages 1..10, max_retries 0..10,
\* max_listings_per_page >= 1
Configs ==
    [max_concurrent_pages : 1..MaxK,
     max_retries : 0..MaxRetries,
     max_listings_per_page : {MaxTasks}, save_images : {FALSE}]

\* The configurations explored for termination, all with fewer slots than
\* tasks: one slot with no attempt or every attempt, and one slot fewer than
\* the tasks with one attempt fewer
FairConfigs ==
    [max_concurrent_pages : {1}, max_retries : {0, MaxRetries},
     max_listings_per_page : {MaxTasks}, save_images : {FALSE}]
    \cup
    [max_concurrent_pages : {MaxTasks - 1}, max_retries : {MaxRetries - 1},
     max_listings_per_page : {MaxTasks}, save_images : {FALSE}]

\* One task and a retry setting that allows several backoffs
BackoffConfigs ==
    [max_concurrent_pages : {1}, max_retries : {MaxRetries + 2},
     max_listings_per_page : {1}, save_images : {FALSE}]

\* The configurations with save_images = True that are explored
DownloadConfigs ==
    [max_concurrent_pages : {MaxK}, max_retries : {MaxRetries},
     max_listings_per_page : {MaxTasks}, save_images : {TRUE}]

-----------------------------------------------------------------------------
(* ListingExtractor.extract_listing *)

\* The fields extract_listing reads after the heading, in the order of the code
Fields ==
    {"price", "mileage", "vin", "description", "location", "dealer_name",
     "detail", "mpg", "images"}

\* The statements of extract_listing's try block, in order
ExtractSteps ==
    <<"wait_h1", "title", "price", "mileage", "condition", "vin",
      "description", "location", "dealer_name", "detail", "mpg",
      "construct", "images">>

Years == {1899, 2021, 2031}

\* A listing page as extract_listing sees it: whether the h1 is there, the
\* field whose extraction raises an unexpected fault (if any), the year of
\* the heading, and the optional fields the page has markup for.
ListingPagesWith(presentSets) ==
    [h1 : BOOLEAN, faultAt : Fields \cup {"none"}, year : Years,
     present : presentSets]

ListingPages == ListingPagesWith(SUBSET {"price", "vin"})

\* A listing page with heading and year in range, no field faulting
PlainPage == [h1 |-> TRUE, faultAt |-> "none", year |-> 2021, present |-> {}]

\* The pages a listing URL may serve to a task's attempt: a plain one, one
\* without heading, one with a faulting field, one with a year out of range
ServedPages ==
    {PlainPage, [PlainPage EXCEPT !.h1 = FALSE],
     [PlainPage EXCEPT !.faultAt = "price"], [PlainPage EXCEPT !.year = 1899]}

\* CarListing.year: Field(ge=1900, le=2030)
ValidYear(y) == 1900 <= y /\ y <= 2030

\* Whether a statement of the try block raises on page p
RaisesAt(p, step) ==
    \/ step = "wait_h1" /\ ~p.h1
    \/ step = p.faultAt
    \/ step = "construct" /\ ~ValidYear(p.year)

\* The statement of the try block that raises first on page p, "ok" if none
FirstRaise(p) ==
    IF \E i \in 1..Len(ExtractSteps) : RaisesAt(p, ExtractSteps[i])
    THEN LET i == CHOOSE k \in 1..Len(ExtractSteps) :
                    /\ RaisesAt(p, ExtractSteps[k])
                    /\ \A j \in 1..(k - 1) : ~RaisesAt(p, ExtractSteps[j])
         IN ExtractSteps[i]
    ELSE "ok"

NoRecord == [kind |-> "none", url |-> 0, year |-> 0, set |-> {}]

\* One try block around every statement: whatever raises, the except clause
\* prints and returns None.
ExtractListing(p, u) ==
    IF \E i \in 1..Len(ExtractSteps) : RaisesAt(p, ExtractSteps[i])
    THEN NoRecord
    ELSE [kind |-> "listing", url |-> u, year |-> p.year, set |-> p.present]

-----------------------------------------------------------------------------
(* CarListing.add_image and ListingExtractor._extract_images *)

\* An image URL string is a number: n > 0 is the URL "https://.../n", 0 is
\* no value (None or ""), -1 is a relative path, -2 is a string that starts
\* with "http" and is no URL.

\* url.startswith("http")
StartsWithHttp(u) == u > 0 \/ u = -2

\* CarImage.url: HttpUrl
ValidHttpUrl(u) == u > 0

\* add_image with position = len(self.images) + 1
AddImageFromOne(images, url, is_primary) ==
    Append(images, [url |-> url, is_primary |-> is_primary,
                    local_path |-> FALSE, position |-> Len(images) + 1])

\* lines 134-136 of car_listing.py: position = len(self.images), the flag as
\* passed, append
AddImage(images, url, is_primary) ==
    Append(images, [url |-> url, is_primary |-> is_primary,
                    local_path |-> FALSE, position |-> Len(images)])

\* "if position >= 20": the limit of _extract_images
ImageLimit == 20

NumImageSelectors == 5

\* src or data_src
SrcOrDataSrc(e) == IF e.src # 0 THEN e.src ELSE e.data_src

\* the loop body without the test against seen_urls
ImageStepNoDedup(st, e) ==
    LET url == SrcOrDataSrc(e) IN
    IF url # 0 /\ StartsWithHttp(url)
    THEN IF ValidHttpUrl(url)
         THEN [st EXCEPT !.seen = @ \cup {url},
                         !.images = AddImage(@, url, st.position = 0),
                         !.position = @ + 1]
         ELSE [st EXCEPT !.seen = @ \cup {url}, !.status = "raised"]
    ELSE st

\* lines 320-328: one img element; st is the local state of _extract_images
\* with the record's images. CarImage(url=...) raises on a string that is no
\* URL, after seen_urls.add.
ImageStep(st, e) ==
    LET url == SrcOrDataSrc(e) IN
    IF url # 0 /\ StartsWithHttp(url) /\ url \notin st.seen
    THEN IF ValidHttpUrl(url)
         THEN [st EXCEPT !.seen = @ \cup {url},
                         !.images = AddImage(@, url, st.position = 0),
                         !.position = @ + 1]
         ELSE [st EXCEPT !.seen = @ \cup {url}, !.status = "raised"]
    ELSE st

RECURSIVE ImageElems(_, _, _)
\* lines 318-331: the loop over the img elements of one selector, left at
\* the limit
ImageElems(st, elems, i) ==
    IF i > Len(elems) THEN st
    ELSE LET nx == ImageStep(st, elems[i]) IN
         IF nx.status = "raised" \/ nx.position >= ImageLimit THEN nx
         ELSE ImageElems(nx, elems, i + 1)

RECURSIVE ImageSelectors(_, _, _)
\* lines 316-334: the loop over the selectors, left at the limit
ImageSelectors(st, gallery, k) ==
    IF k > NumImageSelectors THEN st
    ELSE LET nx == ImageElems(st, gallery[k], 1) IN
         IF nx.status = "raised" \/ nx.position >= ImageLimit THEN nx
         ELSE ImageSelectors(nx, gallery, k + 1)

\* lines 313-334 on a record without images; gallery[k] is what
\* query_selector_all returns for selector k
ExtractImages(gallery) ==
    ImageSelectors([images |-> <<>>, seen |-> {}, position |-> 0,
                    status |-> "ok"], gallery, 1)

Img(src, data_src) == [src |-> src, data_src |-> data_src]

\* n img elements with the URLs a, a+1, ... in src
Run(a, n) == [i \in 1..n |-> Img(a + i - 1, 0)]

\* What one gallery selector may match
ImageLists ==
    {<<>>,
     Run(1, MaxRun),
     [i \in 1..3 |-> Img(0, i)],
     <<Img(2, 0), Img(2, 7), Img(30, 0)>>,
     <<Img(-1, 5), Img(0, 0), Img(0, -1), Img(31, 0)>>,
     <<Img(-2, 0)>>,
     Run(MaxRun - 3, 6)}

Galleries == [1..NumImageSelectors -> ImageLists]

\* The URLs add_image may be called with
ImageUrls == 1..3

-----------------------------------------------------------------------------
(* CarListing and ScraperConfig construction (pydantic validation) *)

\* An Optional value is a set: {} is None, {v} is the value v. A string is
\* a sequence of characters. A price is a number of thousandths.

VinLength == 17

\* str.upper on the characters used
UpperChar(c) ==
    CASE c = "a" -> "A"
      [] c = "i" -> "I"
      [] c = "o" -> "O"
      [] c = "q" -> "Q"
      [] OTHER -> c

Upper(v) == [i \in 1..Len(v) |-> UpperChar(v[i])]

\* Field(None, min_length=17, max_length=17)
VinLengthOk(v) == Len(v) >= VinLength /\ Len(v) <= VinLength

\* validate_vin testing the characters of v instead of v.upper()
VinCharsOkAsGiven(v) == \A i \in 1..Len(v) : v[i] \notin {"I", "O", "Q"}

\* validate_vin, lines 117-119: no character of v.upper() is I, O or Q
VinCharsOk(v) == \A i \in 1..Len(v) : Upper(v)[i] \notin {"I", "O", "Q"}

\* Field(None, ge=0, decimal_places=2) on a number of thousandths
PriceOk(p) == p >= 0 /\ p % 10 = 0

\* Field(min_length=1, max_length=100) on the length of make
MakeOk(n) == n >= 1 /\ n <= 100

NoCarListing ==
    [ok |-> FALSE, year |-> 0, price |-> {}, mileage |-> {}, vin |-> {}]

\* CarListing(**a): the field constraints of lines 77-83, then validate_vin
\* on a VIN that passed them; a ValidationError leaves no record
ConstructCarListing(a) ==
    IF /\ MakeOk(a.make)
       /\ ValidYear(a.year)
       /\ \A p \in a.price : PriceOk(p)
       /\ \A m \in a.mileage : m >= 0
       /\ \A v \in a.vin : VinLengthOk(v) /\ VinCharsOk(v)
    THEN [ok |-> TRUE, year |-> a.year, price |-> a.price,
          mileage |-> a.mileage, vin |-> {Upper(v) : v \in a.vin}]
    ELSE NoCarListing

\* ScraperConfig(**a), lines 49-55 of scraper_config.py: the Field
\* constraints are the only checks; the delays are in tenths of a second
ConstructScraperConfig(a) ==
    [ok |-> /\ a.max_concurrent_pages >= 1 /\ a.max_concurrent_pages <= 10
            /\ a.min_delay_seconds >= 1
            /\ a.max_delay_seconds >= 1
            /\ a.max_retries >= 0 /\ a.max_retries <= 10
            /\ a.max_listings_per_page >= 1]

ScraperConfigArgs ==
    [max_concurrent_pages : {0, 1, 10, 11},
     min_delay_seconds : {0, 1, 10, 30},
     max_delay_seconds : {0, 1, 10, 30},
     max_retries : {-1, 0, 10, 11},
     max_listings_per_page : {0, 1, 25}]

VinChars == {"a", "i", "O", "Q", "1"}

VinPrefixes == UNION {[1..n -> VinChars] : n \in 0..MaxVinPrefix}

\* the string of n characters that starts with prefix and goes on with "1"
Padded(prefix, n) ==
    [i \in 1..n |-> IF i <= Len(prefix) THEN prefix[i] ELSE "1"]

Vins ==
    {Padded(q, n) : q \in VinPrefixes,
                    n \in {VinLength - 1, VinLength, VinLength + 1}}

CarListingArgs ==
    [make : {0, 1, 101},
     year : {1899, 1900, 2030, 2031},
     price : {{}, {-1000}, {0}, {18500000}, {18500005}},
     mileage : {{}, {-1}, {0}, {42000}},
     vin : {{}} \cup {{v} : v \in Vins}]

-----------------------------------------------------------------------------
(* ListingExtractor._parse_title *)

\* A text is a sequence of one-character strings.

IsDigit(c) == c \in {"0", "1", "2", "3", "4", "5", "6", "7", "8", "9"}

DigitValue(c) ==
    CASE c = "0" -> 0 [] c = "1" -> 1 [] c = "2" -> 2 [] c = "3" -> 3
      [] c = "4" -> 4 [] c = "5" -> 5 [] c = "6" -> 6 [] c = "7" -> 7
      [] c = "8" -> 8 [] c = "9" -> 9

RECURSIVE IntOf(_)
\* int(s) of a non-empty text of digits
IntOf(d) ==
    IF Len(d) = 0 THEN 0
    ELSE 10 * IntOf(SubSeq(d, 1, Len(d) - 1)) + DigitValue(d[Len(d)])

RECURSIVE LStrip(_)
LStrip(t) == IF Len(t) > 0 /\ t[1] = " " THEN LStrip(Tail(t)) ELSE t

RECURSIVE RStrip(_)
RStrip(t) ==
    IF Len(t) > 0 /\ t[Len(t)] = " "
    THEN RStrip(SubSeq(t, 1, Len(t) - 1)) ELSE t

\* str.strip()
Strip(t) == RStrip(LStrip(t))

RECURSIVE SplitFrom(_, _, _, _)
\* the scan of str.split(): cur is the part being read, acc the parts read
SplitFrom(t, i, cur, acc) ==
    IF i > Len(t) THEN (IF cur = <<>> THEN acc ELSE Append(acc, cur))
    ELSE IF t[i] = " "
         THEN SplitFrom(t, i + 1, <<>>,
                        IF cur = <<>> THEN acc ELSE Append(acc, cur))
         ELSE SplitFrom(t, i + 1, Append(cur, t[i]), acc)

\* str.split() with no argument
Split(t) == SplitFrom(t, 1, <<>>, <<>>)

RECURSIVE Join(_)
\* " ".join(parts)
Join(parts) ==
    IF Len(parts) = 0 THEN <<>>
    ELSE IF Len(parts) = 1 THEN parts[1]
    ELSE parts[1] \o <<" ">> \o Join(Tail(parts))

Unknown == <<"U", "n", "k", "n", "o", "w", "n">>

DefaultYear == 2020

\* re.search(r"^(\d{4})", t): the first four characters, if digits
YearMatch(t) ==
    IF Len(t) >= 4 /\ \A i \in 1..4 : IsDigit(t[i])
    THEN {SubSeq(t, 1, 4)} ELSE {}

\* _parse_title, lines 111-123
ParseTitle(title) ==
    LET m == YearMatch(Strip(title))
        parts == Split(Strip(title))
    IN [year |-> IF m # {} THEN IntOf(CHOOSE g \in m : TRUE)
                 ELSE DefaultYear,
        make |-> IF Len(parts) >= 3 THEN parts[2] ELSE Unknown,
        model |-> IF Len(parts) >= 3 THEN Join(SubSeq(parts, 3, Len(parts)))
                  ELSE Unknown]

TitleChars == {" ", "2", "H"}

Titles == UNION {[1..n -> TitleChars] : n \in 0..MaxTitleLen}

-----------------------------------------------------------------------------
(* ListingExtractor._parse_price, _parse_mileage and _extract_condition *)

\* the character class [\d,]
InDigitsOrComma(c) == IsDigit(c) \/ c = ","

\* the places where r"[\$]?([\d,]+)" matches: at a "$" followed by a
\* character of the class, or at a character of the class
PriceMatchStarts(t) ==
    {i \in 1..Len(t) :
        \/ InDigitsOrComma(t[i])
        \/ t[i] = "$" /\ i < Len(t) /\ InDigitsOrComma(t[i + 1])}

\* the places where r"([\d,]+)" matches
MileageMatchStarts(t) == {i \in 1..Len(t) : InDigitsOrComma(t[i])}

\* the last place of the longest run of the class that starts at place i
RunEnd(t, i) ==
    CHOOSE e \in i..Len(t) :
        /\ \A j \in i..e : InDigitsOrComma(t[j])
        /\ e = Len(t) \/ ~InDigitsOrComma(t[e + 1])

\* group(1) of the leftmost match that starts at one of the places
Group1(t, starts) ==
    LET i == CHOOSE k \in starts : \A j \in starts : k <= j
        g == IF t[i] = "$" THEN i + 1 ELSE i
    IN SubSeq(t, g, RunEnd(t, g))

\* s.replace(",", "")
RemoveCommas(g) == SelectSeq(g, IsDigit)

Unset == [kind |-> "none", v |-> 0]

Raised == [kind |-> "raised", v |-> 0]

\* Decimal(s) and int(s): the empty string raises (InvalidOperation,
\* ValueError)
ToNumber(d) ==
    IF d = <<>> THEN Raised ELSE [kind |-> "value", v |-> IntOf(d)]

\* _parse_price, lines 146-150
ParsePrice(t) ==
    IF PriceMatchStarts(t) = {} THEN Unset
    ELSE ToNumber(RemoveCommas(Group1(t, PriceMatchStarts(t))))

\* _parse_mileage, lines 179-182
ParseMileage(t) ==
    IF MileageMatchStarts(t) = {} THEN Unset
    ELSE ToNumber(RemoveCommas(Group1(t, MileageMatchStarts(t))))

NumberChars == {"$", ",", "5", "a"}

NumberTexts == UNION {[1..n -> NumberChars] : n \in 0..MaxTextLen}

\* The page content is a sequence of words; a word stands for the
\* substring it spells.

\* str.lower on the words used
LowerWord(w) ==
    CASE w = "Certified" -> "certified"
      [] w = "CERTIFIED" -> "certified"
      [] w = "Pre-Owned" -> "pre-owned"
      [] w = "New" -> "new"
      [] OTHER -> w

Lower(content) == [i \in 1..Len(content) |-> LowerWord(content[i])]

\* w in content
HasWord(content, w) == \E i \in 1..Len(content) : content[i] = w

NewFromYear == 2024

\* _extract_condition testing the new rule first
ExtractConditionNewFirst(content, year) ==
    LET content_lower == Lower(content) IN
    IF HasWord(content_lower, "new") /\ year >= NewFromYear THEN "new"
    ELSE IF /\ HasWord(content_lower, "certified")
            /\ HasWord(content_lower, "pre-owned") THEN "certified"
    ELSE "used"

\* _extract_condition, lines 186-194
ExtractCondition(content, year) ==
    LET content_lower == Lower(content) IN
    IF /\ HasWord(content_lower, "certified")
       /\ HasWord(content_lower, "pre-owned") THEN "certified"
    ELSE IF HasWord(content_lower, "new") /\ year >= NewFromYear THEN "new"
    ELSE "used"

ContentWords ==
    {"Certified", "certified", "CERTIFIED", "pre-owned", "Pre-Owned",
     "new", "New", "car"}

Contents == UNION {[1..n -> ContentWords] : n \in 0..MaxWords}

ConditionArgs == [content : Contents, year : {2023, 2024, 2025}]

-----------------------------------------------------------------------------
(* The locator chains of ListingExtractor *)

\* What page.query_selector returns for the selectors of a chain, in list
\* order: {} for no element, {text} for an element with that inner text.

\* the number of selectors of each chain (lines 128, 155, 210, 226, 241)
ChainLength(field) ==
    CASE field = "price" -> 4
      [] field = "mileage" -> 3
      [] field = "description" -> 4
      [] field = "location" -> 3
      [] field = "dealer_name" -> 3

TextValue(t) == [kind |-> "text", v |-> t]

RECURSIVE PriceChain(_, _)
\* _extract_price, lines 135-141: the first element found decides
PriceChain(elems, k) ==
    IF k > Len(elems) THEN Unset
    ELSE IF elems[k] # {} THEN ParsePrice(CHOOSE t \in elems[k] : TRUE)
    ELSE PriceChain(elems, k + 1)

RECURSIVE MileageChain(_, _, _)
\* _extract_mileage, lines 161-175: an element whose text gives no number
\* is passed over; after the chain, the match of r"([\d,]+)\s*miles?" in
\* the page content, whose group(1) is content ({} for no match)
MileageChain(elems, content, k) ==
    IF k > Len(elems)
    THEN IF content # {}
         THEN ToNumber(RemoveCommas(CHOOSE g \in content : TRUE))
         ELSE Unset
    ELSE IF elems[k] # {}
         THEN LET m == ParseMileage(CHOOSE t \in elems[k] : TRUE) IN
              IF m.kind # "none" THEN m
              ELSE MileageChain(elems, content, k + 1)
         ELSE MileageChain(elems, content, k + 1)

RECURSIVE TextChain(_, _)
\* _extract_description, _extract_location, _extract_dealer: the inner text
\* of the first element found, whatever it is
TextChain(elems, k) ==
    IF k > Len(elems) THEN Unset
    ELSE IF elems[k] # {} THEN TextValue(CHOOSE t \in elems[k] : TRUE)
    ELSE TextChain(elems, k + 1)

\* the chain of a field on a page
ExtractField(field, pg) ==
    CASE field = "price" -> PriceChain(pg.elems, 1)
      [] field = "mileage" -> MileageChain(pg.elems, pg.content, 1)
      [] OTHER -> TextChain(pg.elems, 1)

ChainFields == {"price", "mileage", "description", "location", "dealer_name"}

ChainTexts == {<<>>, <<"a">>, <<"$", "5">>, <<"7", ",", "5">>}

ChainPages(field) ==
    [elems : [1..ChainLength(field) -> {{}} \cup {{x} : x \in ChainTexts}],
     content : {{}, {<<"7">>}}]

-----------------------------------------------------------------------------
(* CarsScraper._extract_listing_urls *)

\* An href is a sequence of tokens; a substring test of the code is a test
\* on tokens. Origin is the only token that contains "cars.com".
Origin == "https://www.cars.com"
Elsewhere == "https://dealer.example"

Hrefs ==
    {<<>>,
     <<"/", "vehicledetail", "/", "1">>,
     <<Origin, "/", "vehicledetail", "/", "1">>,
     <<"vehicledetail", "/", "1">>,
     <<"/", "detail", "/", "2">>,
     <<Elsewhere, "/", "vehicledetail", "/", "3">>,
     <<"/", "about">>}

\* An anchor of the search page: its href ("" or absent is <<>>) and what
\* else the structural selectors look at
Anchors == [href : Hrefs, mark : {"plain", "testid", "card", "cardlink"}]

SearchPages == UNION {[1..n -> Anchors] : n \in 0..MaxAnchors}

\* pat in href
Contains(h, pat) ==
    \E i \in 1..Len(h) :
        i + Len(pat) - 1 <= Len(h) /\ SubSeq(h, i, i + Len(pat) - 1) = pat

\* href.startswith("/")
StartsWithSlash(h) == Len(h) > 0 /\ h[1] = "/"

\* "cars.com" in href
HasCarsCom(h) == \E i \in 1..Len(h) : h[i] = Origin

\* f"https://www.cars.com{href}"
Absolute(h) == <<Origin>> \o h

\* the four selectors of lines 171-176, in list order
MatchesSelector(k, a) ==
    CASE k = 1 -> Contains(a.href, <<"/", "vehicledetail", "/">>)
      [] k = 2 -> a.mark = "testid"
      [] k = 3 -> a.mark = "card" /\ Contains(a.href, <<"/", "detail", "/">>)
      [] k = 4 -> a.mark = "cardlink"

NumSelectors == 4

\* page.query_selector_all(selector): the matches in document order
QuerySelectorAll(pg, k) ==
    LET Test(a) == MatchesSelector(k, a) IN SelectSeq(pg, Test)

\* lines 182-188: one element of the structural loop
AddStructural(acc, a) ==
    IF a.href = <<>> THEN acc
    ELSE LET href == IF StartsWithSlash(a.href) THEN Absolute(a.href)
                     ELSE a.href
         IN IF href \notin Range(acc) /\ HasCarsCom(href)
            THEN Append(acc, href) ELSE acc

\* lines 194-198: one link of the fallback loop; the membership test is on
\* the href as discovered, the append on the rewritten one
AddFallback(acc, a) ==
    IF /\ a.href # <<>>
       /\ (\E i \in 1..Len(a.href) : a.href[i] = "vehicledetail")
            \/ Contains(a.href, <<"/", "detail", "/">>)
       /\ a.href \notin Range(acc)
    THEN Append(acc, IF StartsWithSlash(a.href) THEN Absolute(a.href)
                     ELSE a.href)
    ELSE acc

RECURSIVE StructuralElems(_, _, _)
\* lines 181-188: the inner loop over the elements of one selector
StructuralElems(acc, elems, i) ==
    IF i > Len(elems) THEN acc
    ELSE StructuralElems(AddStructural(acc, elems[i]), elems, i + 1)

RECURSIVE StructuralLoop(_, _, _)
\* lines 179-188: the loop over the selectors
StructuralLoop(acc, pg, k) ==
    IF k > NumSelectors THEN acc
    ELSE StructuralLoop(StructuralElems(acc, QuerySelectorAll(pg, k), 1),
                        pg, k + 1)

RECURSIVE FallbackLoop(_, _, _)
\* lines 192-198: the loop over all links
FallbackLoop(acc, links, i) ==
    IF i > Len(links) THEN acc
    ELSE FallbackLoop(AddFallback(acc, links[i]), links, i + 1)

\* lines 178-200
ExtractListingUrls(pg) ==
    LET found == StructuralLoop(<<>>, pg, 1) IN
    IF found = <<>> THEN FallbackLoop(found, pg, 1) ELSE found

-----------------------------------------------------------------------------
(* BrowserManager.get_page *)

\* Entering the block: create_context() and context.new_page() are both
\* before the try, so a fault of new_page leaves the context open.
GetPageEnterOutcomes == {"ok", "context_fault", "new_page_fault"}

\* Leaving the block: finally: page.close(); context.close(). A fault of
\* page.close() skips context.close().
GetPageExitOutcomes == {"ok", "page_close_fault"}

LeaksOnEnter(o) == o = "new_page_fault"
LeaksOnExit(o) == o = "page_close_fault"

-----------------------------------------------------------------------------
(* CarsScraper.scrape_search_page and the listing tasks *)

Tasks == DOMAIN pc

\* listing.images of a record extract_listing returned: the image URLs
RecordImages == <<1, 2>>

MkdirOutcomes == {"ok", "fault"}

DownloadOutcomes == {"ok", "fetch_fault", "write_fault", "log_fault"}

\* what went wrong with an image: nothing, the fetch or the write of the
\* file ("image"), or these and then the print of the except clause
DownloadFault(o) ==
    CASE o = "ok" -> "none"
      [] o \in {"fetch_fault", "write_fault"} -> "image"
      [] o = "log_fault" -> "print"

\* the loop body of _download_images without its try/except
DownloadImageUncaught(o) ==
    [local_path |-> o = "ok", raises |-> o # "ok"]

\* lines 216-234: one image. A fault of the get, of raise_for_status or of
\* write_bytes is caught and printed, and local_path stays unset; only a
\* fault of the print of line 234 leaves the loop.
DownloadImage(o) ==
    [local_path |-> o = "ok", raises |-> o = "log_fault"]

InBlock(t) == pc[t] \in {"navigate", "extract", "download", "exit"}

SearchInBlock == main \in {"search", "search_exit_ok", "search_exit_exc"}

\* Contexts created and not closed
OpenSessions ==
    leaked + Cardinality({t \in Tasks : InBlock(t)})
           + (IF SearchInBlock THEN 1 ELSE 0)

\* the discovered list kept whole
TruncateNothing(s, n) == s

\* listing_urls[: max_listings_per_page]
Truncate(s, n) == SubSeq(s, 1, Min(Len(s), n))

\* the way every attempt so far ended: "nav", "noh1", or "mixed"
Mix(old, k) == IF old = "none" \/ old = k THEN k ELSE "mixed"

IsCarListing(r) == r.kind = "listing"

IsException(r) == r.kind = "exception"

\* the results in the order the tasks finished, as asyncio.as_completed
\* would hand them over
GatheredAsCompleted == [i \in 1..Len(completed) |-> result[completed[i]]]

\* asyncio.gather(*tasks, return_exceptions=True): one entry per awaitable,
\* in the order the awaitables were passed
GatheredResults == [i \in 1..Len(listing_urls) |-> result[i]]

\* gather without return_exceptions: a task's exception is raised in the caller
GatherOutcomeRaising(results) ==
    IF \E i \in 1..Len(results) : IsException(results[i])
    THEN "raised" ELSE "returned"

\* with return_exceptions=True no task's exception is raised in the caller
GatherOutcome(results) == "returned"

NotException(r) == ~IsException(r)

\* a filter that drops the exceptions only and keeps the None entries
FilterNotException(results) == SelectSeq(results, NotException)

\* a filter that puts each record in front of the ones kept so far
FilterListingsPrepending(results) ==
    LET kept == SelectSeq(results, IsCarListing)
    IN [i \in 1..Len(kept) |-> kept[Len(kept) + 1 - i]]

\* for result in results: if isinstance(result, CarListing): append
FilterListings(results) == SelectSeq(results, IsCarListing)

orchIdle ==
    /\ listing_urls = <<>>
    /\ sem = 0
    /\ pc = <<>>
    /\ attempts = <<>>
    /\ ret = <<>>
    /\ hist = <<>>
    /\ result = <<>>
    /\ leaked = 0
    /\ completed = <<>>
    /\ listings = <<>>
    /\ discovered = <<>>
    /\ sleep = <<>>
    /\ dl = <<>>
    /\ last = <<>>

urlIdle == page = <<>> /\ urls = <<>> /\ uphase = "idle"

exIdle ==
    /\ exPage = PlainPage
    /\ exResult = NoRecord
    /\ xphase = "idle"

fnIdle == fn = "idle" /\ arg = <<>> /\ val = <<>>

Init ==
    /\ cfg \in Configs
    /\ main = "start"
    /\ orchIdle
    /\ urlIdle
    /\ exIdle
    /\ fnIdle

standalone == <<page, urls, uphase, exPage, exResult, xphase, fn, arg, val>>

others == <<standalone, discovered, dl, last>>

\* line 72: async with self.browser_manager.get_page() as page
SearchEnter ==
    /\ main = "start"
    /\ \E o \in GetPageEnterOutcomes :
        /\ LeaksOnEnter(o) => leaked < MaxLeaks
        /\ main' = IF o = "ok" THEN "search" ELSE "raised"
        /\ leaked' = IF LeaksOnEnter(o) THEN leaked + 1 ELSE leaked
    /\ UNCHANGED <<cfg, listing_urls, sem, pc, attempts, ret, hist, result,
                   completed, listings, sleep, others>>

\* lines 74-86: goto, delay, scroll, discover, truncate; d URLs discovered
SearchBody ==
    /\ main = "search"
    /\ \/ \E d \in 0..(MaxTasks + 1) :
            /\ discovered' = [i \in 1..d |-> i]
            /\ listing_urls' = Truncate(discovered', cfg.max_listings_per_page)
            /\ main' = "search_exit_ok"
       \/ /\ main' = "search_exit_exc"
          /\ UNCHANGED <<listing_urls, discovered>>
    /\ UNCHANGED <<cfg, sem, pc, attempts, ret, hist, result, leaked,
                   completed, listings, sleep, standalone, dl,
                   last>>

\* leaving the block of line 72, then lines 89-92: semaphore and tasks
SearchExit ==
    /\ main \in {"search_exit_ok", "search_exit_exc"}
    /\ \E o \in GetPageExitOutcomes :
        /\ LeaksOnExit(o) => leaked < MaxLeaks
        /\ leaked' = IF LeaksOnExit(o) THEN leaked + 1 ELSE leaked
        /\ IF o = "ok" /\ main = "search_exit_ok"
           THEN /\ main' = "gather"
                /\ sem' = cfg.max_concurrent_pages
                /\ pc' = [t \in 1..Len(listing_urls) |-> "pending"]
                /\ attempts' = [t \in 1..Len(listing_urls) |-> 0]
                /\ ret' = [t \in 1..Len(listing_urls) |-> NoneVal]
                /\ hist' = [t \in 1..Len(listing_urls) |-> "none"]
                /\ result' = [t \in 1..Len(listing_urls) |-> PendingVal]
                /\ sleep' = [t \in 1..Len(listing_urls) |-> 0]
                /\ dl' = [t \in 1..Len(listing_urls) |-> <<>>]
                /\ last' = [t \in 1..Len(listing_urls) |-> "none"]
           ELSE /\ main' = "raised"
                /\ UNCHANGED <<sem, pc, attempts, ret, hist, result, sleep,
                               dl, last>>
    /\ discovered' = <<>>
    /\ UNCHANGED <<cfg, listing_urls, completed, listings, standalone>>

\* a task's coroutine ending without giving its slot back
FinishHoldingSlot(t, r, s) ==
    /\ pc' = [pc EXCEPT ![t] = "done"]
    /\ result' = [result EXCEPT ![t] = r]
    /\ sem' = s
    /\ completed' = IF IsCarListing(r) THEN Append(completed, t) ELSE completed
    /\ sleep' = [sleep EXCEPT ![t] = 0]

\* a task's coroutine ends with value r while the semaphore holds s: the
\* slot is released on the way out of "async with semaphore" (line 116) and
\* gather records r as the task's result
Finish(t, r, s) ==
    /\ pc' = [pc EXCEPT ![t] = "done"]
    /\ result' = [result EXCEPT ![t] = r]
    /\ sem' = s + 1
    /\ completed' = IF IsCarListing(r) THEN Append(completed, t) ELSE completed
    /\ sleep' = [sleep EXCEPT ![t] = 0]

\* a backoff of 2 ** (attempt + 1) seconds
BackoffDelayFromTwo(attempt) == 2 ^ (attempt + 1)

\* line 154: asyncio.sleep(2**attempt), attempt the loop variable of line 129
BackoffDelay(attempt) == 2 ^ attempt

\* an except clause that gives up whatever the attempt number
HandleGivingUp(t, a, s) ==
    \/ Finish(t, NoneVal, s)
    \/ Finish(t, ExcVal, s)

\* lines 151-156, the except clause of the attempt numbered a - 1: print
\* (which may itself raise, and then the exception leaves the task), then
\* back off if attempt < max_retries - 1, else return None
Handle(t, a, s) ==
    \/ /\ a - 1 < cfg.max_retries - 1
       /\ pc' = [pc EXCEPT ![t] = "backoff"]
       /\ sleep' = [sleep EXCEPT ![t] = BackoffDelay(a - 1)]
       /\ sem' = s
       /\ UNCHANGED <<result, completed>>
    \/ /\ ~(a - 1 < cfg.max_retries - 1)
       /\ Finish(t, NoneVal, s)
    \/ Finish(t, ExcVal, s)

\* a loop that makes its first attempt whatever max_retries is
IterateAtLeastOnce(t, s) ==
    IF attempts[t] < cfg.max_retries \/ attempts[t] = 0
    THEN /\ attempts' = [attempts EXCEPT ![t] = @ + 1]
         /\ \E o \in GetPageEnterOutcomes :
             /\ LeaksOnEnter(o) => leaked < MaxLeaks
             /\ leaked' = IF LeaksOnEnter(o) THEN leaked + 1 ELSE leaked
             /\ IF o = "ok"
                THEN /\ pc' = [pc EXCEPT ![t] = "navigate"]
                     /\ sleep' = [sleep EXCEPT ![t] = 0]
                     /\ sem' = s
                     /\ UNCHANGED <<hist, result, completed>>
                ELSE /\ hist' = [hist EXCEPT ![t] = "mixed"]
                     /\ Handle(t, attempts[t] + 1, s)
    ELSE /\ Finish(t, NoneVal, s)
         /\ UNCHANGED <<attempts, hist, leaked>>

\* line 129, the for statement: with another attempt left, line 131 enters
\* get_page; with the range exhausted, line 158 returns None
Iterate(t, s) ==
    IF attempts[t] < cfg.max_retries
    THEN /\ attempts' = [attempts EXCEPT ![t] = @ + 1]
         /\ \E o \in GetPageEnterOutcomes :
             /\ LeaksOnEnter(o) => leaked < MaxLeaks
             /\ leaked' = IF LeaksOnEnter(o) THEN leaked + 1 ELSE leaked
             /\ IF o = "ok"
                THEN /\ pc' = [pc EXCEPT ![t] = "navigate"]
                     /\ sleep' = [sleep EXCEPT ![t] = 0]
                     /\ sem' = s
                     /\ UNCHANGED <<hist, result, completed>>
                ELSE /\ hist' = [hist EXCEPT ![t] = "mixed"]
                     /\ Handle(t, attempts[t] + 1, s)
    ELSE /\ Finish(t, NoneVal, s)
         /\ UNCHANGED <<attempts, hist, leaked>>

\* line 116: async with semaphore; the task then runs on to its first await
Acquire(t) ==
    /\ main = "gather"
    /\ pc[t] = "pending"
    /\ sem > 0
    /\ Iterate(t, sem - 1)
    /\ UNCHANGED <<cfg, main, listing_urls, ret, listings, others>>

\* line 154: asyncio.sleep(2**attempt) is over, next iteration
Backoff(t) ==
    /\ pc[t] = "backoff"
    /\ Iterate(t, sem)
    /\ UNCHANGED <<cfg, main, listing_urls, ret, listings, others>>

\* line 146 without its test of the record
StartsDownloadWithoutRecord(r) == cfg.save_images

\* line 146: if listing and self.config.save_images
StartsDownload(r) == IsCarListing(r) /\ cfg.save_images

\* lines 133-141: goto, random delay, mouse movement
Navigate(t) ==
    /\ pc[t] = "navigate"
    /\ \/ /\ pc' = [pc EXCEPT ![t] = "extract"]
          /\ UNCHANGED <<ret, hist, last>>
       \/ /\ pc' = [pc EXCEPT ![t] = "exit"]
          /\ ret' = [ret EXCEPT ![t] = ExcVal]
          /\ hist' = [hist EXCEPT ![t] = Mix(@, "nav")]
          /\ last' = [last EXCEPT ![t] = "goto"]
    /\ UNCHANGED <<cfg, main, listing_urls, sem, attempts, result, leaked,
                   completed, listings, dl, discovered,
                   sleep, standalone>>

\* lines 144-149: extract_listing on the page the site served; with a
\* record and save_images, _download_images runs up to its first await
\* (the client is set since start(), line 48; mkdir of line 213 may raise)
Extract(t) ==
    /\ pc[t] = "extract"
    /\ \E p \in ServedPages, m \in MkdirOutcomes :
        LET r == ExtractListing(p, listing_urls[t])
            downloads == StartsDownload(r)
        IN
        /\ ~downloads => m = "ok"
        /\ ret' = [ret EXCEPT ![t] = IF m # "ok" THEN ExcVal
                                     ELSE IF IsCarListing(r)
                                          THEN Listing(r.url)
                                          ELSE NoneVal]
        /\ hist' = [hist EXCEPT ![t] = IF ~p.h1 THEN Mix(@, "noh1")
                                       ELSE "mixed"]
        /\ last' = [last EXCEPT ![t] = IF m # "ok" THEN "mkdir"
                                       ELSE FirstRaise(p)]
        /\ pc' = [pc EXCEPT ![t] =
                    IF downloads /\ m = "ok" /\ Len(RecordImages) > 0
                    THEN "download" ELSE "exit"]
    /\ dl' = [dl EXCEPT ![t] = <<>>]
    /\ UNCHANGED <<cfg, main, listing_urls, sem, attempts, result, leaked,
                   completed, listings, discovered,
                   sleep, standalone>>

\* lines 215-234: one image of the record, from the get of line 217 to the
\* next get, or to the return of line 149 after the last image
Download(t) ==
    /\ pc[t] = "download"
    /\ \E o \in DownloadOutcomes :
        LET d == DownloadImage(o) IN
        /\ dl' = [dl EXCEPT ![t] = Append(@, [fault |-> DownloadFault(o),
                                              local_path |-> d.local_path])]
        /\ IF d.raises
           THEN /\ pc' = [pc EXCEPT ![t] = "exit"]
                /\ ret' = [ret EXCEPT ![t] = ExcVal]
                /\ last' = [last EXCEPT ![t] = "download"]
           ELSE /\ pc' = [pc EXCEPT ![t] =
                            IF Len(dl[t]) + 1 < Len(RecordImages)
                            THEN "download" ELSE "exit"]
                /\ UNCHANGED <<ret, last>>
    /\ UNCHANGED <<cfg, main, listing_urls, sem, attempts, hist, result,
                   leaked, completed, listings, discovered,
                   sleep, standalone>>

\* leaving the block of line 131: finally of get_page, then either the
\* return of line 149 or the exception reaches the except clause
Exit(t) ==
    /\ pc[t] = "exit"
    /\ \E o \in GetPageExitOutcomes :
        /\ LeaksOnExit(o) => leaked < MaxLeaks
        /\ leaked' = IF LeaksOnExit(o) THEN leaked + 1 ELSE leaked
        /\ IF o = "ok" /\ ~IsException(ret[t])
           THEN /\ Finish(t, ret[t], sem)
                /\ UNCHANGED hist
           ELSE /\ hist' = [hist EXCEPT ![t] = IF o = "ok" THEN @ ELSE "mixed"]
                /\ Handle(t, attempts[t], sem)
    /\ ret' = [ret EXCEPT ![t] = NoneVal]
    /\ dl' = [dl EXCEPT ![t] = <<>>]
    /\ last' = [last EXCEPT ![t] = "none"]
    /\ UNCHANGED <<cfg, main, listing_urls, attempts, listings, discovered,
                   standalone>>

\* lines 92-101: gather is over, filter the results, return
GatherReturn ==
    /\ main = "gather"
    /\ \A t \in Tasks : pc[t] = "done"
    /\ main' = GatherOutcome(GatheredResults)
    /\ listings' = FilterListings(GatheredResults)
    /\ UNCHANGED <<cfg, listing_urls, sem, pc, attempts, ret, hist, result,
                   leaked, completed, sleep, others>>

Next ==
    \/ SearchEnter
    \/ SearchBody
    \/ SearchExit
    \/ \E t \in Tasks : Acquire(t)
    \/ \E t \in Tasks : Navigate(t)
    \/ \E t \in Tasks : Extract(t)
    \/ \E t \in Tasks : Exit(t)
    \/ \E t \in Tasks : Backoff(t)
    \/ GatherReturn

Spec == Init /\ [][Next]_vars

\* The event loop runs a step whenever one is ready: every await of the
\* program ends, with a value or with a fault, within its timeout
InitFair ==
    /\ cfg \in FairConfigs
    /\ main = "start"
    /\ orchIdle
    /\ urlIdle
    /\ exIdle
    /\ fnIdle

SpecFair == InitFair /\ [][Next]_vars /\ WF_vars(Next)

\* The same program with one listing task and several retries
InitBackoff ==
    /\ cfg \in BackoffConfigs
    /\ main = "start"
    /\ orchIdle
    /\ urlIdle
    /\ exIdle
    /\ fnIdle

SpecBackoff == InitBackoff /\ [][Next]_vars

\* The same program configured with save_images = True
InitDownload ==
    /\ cfg \in DownloadConfigs
    /\ main = "start"
    /\ orchIdle
    /\ urlIdle
    /\ exIdle
    /\ fnIdle

NextDownload ==
    \/ Next
    \/ \E t \in Tasks : Download(t)

SpecDownload == InitDownload /\ [][NextDownload]_vars

-----------------------------------------------------------------------------
(* Properties of scrape_search_page and its tasks, checked under Spec *)

Done(t) == pc[t] = "done"

Succeeded == Range(completed)

\* the record of task t is in the returned list
Returned(t) == \E i \in 1..Len(listings) : listings[i] = Listing(listing_urls[t])

\* the place of task t's record in the returned list
PlaceOf(t) == CHOOSE i \in 1..Len(listings) : listings[i] = Listing(listing_urls[t])

\* C1: in every reachable state of one scrape_search_page call the number of
\* sessions opened by get_page and not yet closed is at most
\* max_concurrent_pages.
C1_OpenSessionsAtMostK == OpenSessions <= cfg.max_concurrent_pages

\* C2: a listing task whose every attempt ended in a navigation fault and
\* that terminated without a record was attempted max_retries + 1 times.
C2_AttemptsBudgetPlusOne ==
    \A t \in Tasks :
        (Done(t) /\ hist[t] = "nav" /\ result[t] = NoneVal)
            => attempts[t] = cfg.max_retries + 1

\* C3: with retry budget 2, a listing task whose page has no h1 is attempted
\* 3 times before it is dropped.
C3_MissingHeadingRetried ==
    \A t \in Tasks :
        (cfg.max_retries = 2 /\ Done(t) /\ hist[t] = "noh1")
            => (attempts[t] = 3 /\ result[t] = NoneVal)

\* C4: the returned list is as long as the number of tasks that succeeded,
\* and a task that did not succeed (its retry budget exhausted, or no record
\* extracted) has no record in it.
C4_LengthIsSuccessCount ==
    main = "returned" =>
        /\ Len(listings) = Cardinality(Succeeded)
        /\ \A t \in Tasks : t \notin Succeeded => ~Returned(t)

\* a returned call in which one task exhausted its budget of at least two
\* attempts on navigation faults and another task succeeded
C4_Witness ==
    /\ main = "returned"
    /\ \E t \in Tasks :
        /\ hist[t] = "nav" /\ result[t] = NoneVal
        /\ attempts[t] = cfg.max_retries /\ cfg.max_retries >= 2
    /\ Succeeded # {}

\* C5: once the tasks are launched the call never raises, a task that ends
\* without a record changes nothing of its siblings, and when the call
\* returns every task has finished and every succeeded task's record is in
\* the list.
C5_NoAbortNoCancel ==
    [][/\ main = "gather" => main' \in {"gather", "returned"}
       /\ \A t \in Tasks :
            (~Done(t) /\ pc'[t] = "done" /\ ~IsCarListing(result'[t]))
                => \A u \in Tasks \ {t} :
                     /\ pc'[u] = pc[u]
                     /\ attempts'[u] = attempts[u]
                     /\ result'[u] = result[u]
       /\ (main = "gather" /\ main' = "returned")
            => /\ \A t \in Tasks : Done(t)
               /\ \A t \in Succeeded : \E i \in 1..Len(listings') :
                    listings'[i] = Listing(listing_urls[t])]_vars

\* a returned call in which an exception left one task, and another task
\* succeeded and is in the list
C5_Witness ==
    /\ main = "returned"
    /\ \E t \in Tasks : IsException(result[t])
    /\ \E u \in Succeeded : Returned(u)

\* C6 as claimed: the returned records are in the order their tasks finished.
C6_CompletionOrder ==
    main = "returned" =>
        listings = [i \in 1..Len(completed) |-> Listing(listing_urls[completed[i]])]

\* C6 as amended: the returned records are in the order of the discovered
\* URL list, whatever order their tasks finished in.
C6_DiscoveredListOrder ==
    main = "returned" =>
        \A a, b \in Succeeded :
            a < b => (Returned(a) /\ Returned(b) /\ PlaceOf(a) < PlaceOf(b))

\* a returned call in which the later URL's task finished first
C6_Witness ==
    /\ main = "returned"
    /\ \E i, j \in 1..Len(completed) : i < j /\ completed[i] > completed[j]

\* C7: no context remains open once the get_page block that opened it has
\* been left; the open contexts are those of the blocks being executed.
C7_NoContextOutlivesBlock ==
    OpenSessions = Cardinality({t \in Tasks : InBlock(t)})
                   + (IF SearchInBlock THEN 1 ELSE 0)

-----------------------------------------------------------------------------
(* _extract_listing_urls on a bounded search page *)

InitUrls ==
    /\ cfg = [max_concurrent_pages |-> 1, max_retries |-> 1,
              max_listings_per_page |-> MaxTasks, save_images |-> FALSE]
    /\ main = "search"
    /\ orchIdle
    /\ page \in SearchPages
    /\ urls = <<>>
    /\ uphase = "loaded"
    /\ exIdle
    /\ fnIdle

\* line 83: listing_urls = await self._extract_listing_urls(page)
DiscoverUrls ==
    /\ uphase = "loaded"
    /\ urls' = ExtractListingUrls(page)
    /\ uphase' = "extracted"
    /\ UNCHANGED <<orchVars, page, exVars, fnVars>>

NextUrls == DiscoverUrls

SpecUrls == InitUrls /\ [][NextUrls]_vars

\* an href in absolute form
IsAbsolute(h) == Len(h) > 0 /\ h[1] \in {Origin, Elsewhere}

\* an href rewritten with the site origin when it is a path
Normalised(h) == IF StartsWithSlash(h) THEN Absolute(h) ELSE h

\* the first place on the page of a link whose target is u
FirstOccurrence(u) ==
    CHOOSE k \in 1..Len(page) :
        /\ Normalised(page[k].href) = u
        /\ \A j \in 1..(k - 1) : Normalised(page[j].href) # u

NoDuplicateUrls == \A i, j \in 1..Len(urls) : i # j => urls[i] # urls[j]

\* C9: each distinct listing URL is returned once, in the order of first
\* occurrence on the page, on the structural and on the fallback path.
C9_UniqueInFirstOccurrenceOrder ==
    uphase = "extracted" =>
        /\ NoDuplicateUrls
        /\ \A i, j \in 1..Len(urls) :
            i < j => FirstOccurrence(urls[i]) < FirstOccurrence(urls[j])

\* C10: every returned URL is absolute.
C10_AllAbsolute ==
    uphase = "extracted" => \A i \in 1..Len(urls) : IsAbsolute(urls[i])

-----------------------------------------------------------------------------
(* extract_listing on a bounded listing page *)

InitExtract ==
    /\ cfg = [max_concurrent_pages |-> 1, max_retries |-> 1,
              max_listings_per_page |-> MaxTasks, save_images |-> FALSE]
    /\ main = "gather"
    /\ orchIdle
    /\ urlIdle
    /\ exPage \in ListingPages
    /\ exResult = NoRecord
    /\ xphase = "loaded"
    /\ fnIdle

\* line 144: listing = await self.extractor.extract_listing(page, url)
RunExtract ==
    /\ xphase = "loaded"
    /\ exResult' = ExtractListing(exPage, 1)
    /\ xphase' = "extracted"
    /\ UNCHANGED <<orchVars, urlVars, exPage, fnVars>>

NextExtract == RunExtract

SpecExtract == InitExtract /\ [][NextExtract]_vars

\* C8: when the extraction of one field raises on a page with its h1 and an
\* otherwise valid record, extract_listing still returns a record, with that
\* field unset.
C8_FieldFaultKeepsRecord ==
    (/\ xphase = "extracted"
     /\ exPage.h1
     /\ exPage.faultAt \in Fields
     /\ ValidYear(exPage.year))
        => (exResult.kind = "listing" /\ exPage.faultAt \notin exResult.set)

-----------------------------------------------------------------------------
(* add_image calls on a record created without images *)

InitAddImage ==
    /\ cfg = [max_concurrent_pages |-> 1, max_retries |-> 1,
              max_listings_per_page |-> MaxTasks, save_images |-> FALSE]
    /\ main = "start"
    /\ orchIdle
    /\ urlIdle
    /\ exIdle
    /\ fn = "add_image"
    /\ arg = <<>>
    /\ val = <<>>

\* listing.add_image(url, is_primary) returns; arg keeps the calls made
AddImageCall ==
    /\ fn = "add_image"
    /\ Len(val) < MaxImages
    /\ \E u \in ImageUrls, prim \in BOOLEAN :
        /\ val' = AddImage(val, u, prim)
        /\ arg' = Append(arg, [url |-> u, is_primary |-> prim])
    /\ UNCHANGED <<orchVars, urlVars, exVars, fn>>

NextAddImage == AddImageCall

SpecAddImage == InitAddImage /\ [][NextAddImage]_vars

\* C12: after N add_image calls on a record created with no images, the
\* images have the positions 0..N-1, each equal to the image's index in the
\* list, in the order of the calls.
C12_PositionsInCallOrder ==
    fn = "add_image" =>
        /\ Len(val) = Len(arg)
        /\ \A i \in 1..Len(val) :
            val[i].position = i - 1 /\ val[i].url = arg[i].url

\* three calls made
C12_Witness == fn = "add_image" /\ Len(arg) = 3 /\ Len(val) = 3

\* C13: at most one image has is_primary = true, and if one does it is the
\* image at position 0.
C13_OnePrimaryAtZero ==
    fn = "add_image" =>
        /\ Cardinality({i \in 1..Len(val) : val[i].is_primary}) <= 1
        /\ \A i \in 1..Len(val) : val[i].is_primary => val[i].position = 0

-----------------------------------------------------------------------------
(* _extract_images on a bounded gallery *)

InitGallery ==
    /\ cfg = [max_concurrent_pages |-> 1, max_retries |-> 1,
              max_listings_per_page |-> MaxTasks, save_images |-> FALSE]
    /\ main = "start"
    /\ orchIdle
    /\ urlIdle
    /\ exIdle
    /\ fn = "extract_images"
    /\ arg \in Galleries
    /\ val = <<>>

\* line 85 of listing_extractor.py: await self._extract_images(page, listing)
RunExtractImages ==
    /\ fn = "extract_images"
    /\ val = <<>>
    /\ val' = <<ExtractImages(arg)>>
    /\ UNCHANGED <<orchVars, urlVars, exVars, fn, arg>>

NextGallery == RunExtractImages

SpecGallery == InitGallery /\ [][NextGallery]_vars

\* the img elements of all selectors, in selector order then document order
Candidates(g) == g[1] \o g[2] \o g[3] \o g[4] \o g[5]

\* the URLs of the candidates that are absolute
CandidateUrls(g) ==
    LET c == Candidates(g)
        u == [i \in 1..Len(c) |-> IF c[i].src # 0 THEN c[i].src
                                  ELSE c[i].data_src]
        Http(x) == x > 0 \/ x = -2
    IN SelectSeq(u, Http)

\* whether place i of s is the first place of its value
FirstSeen(s, i) == \A j \in 1..(i - 1) : s[j] # s[i]

\* the number of distinct values in the first i places of s
DistinctUpTo(s, i) == Cardinality({s[j] : j \in 1..i})

\* C11: _extract_images appends at most 20 images, never the same URL
\* twice, and the images are the URLs of the candidates of all locators in
\* first-seen order: the n-th image is the n-th distinct absolute URL.
C11_CappedDedupFirstSeen ==
    (fn = "extract_images" /\ val # <<>>) =>
        LET imgs == val[1].images
            cu == CandidateUrls(arg)
        IN /\ Len(imgs) <= ImageLimit
           /\ \A i, j \in 1..Len(imgs) : i # j => imgs[i].url # imgs[j].url
           /\ \A n \in 1..Len(imgs) :
                \E i \in 1..Len(cu) :
                    /\ cu[i] = imgs[n].url
                    /\ FirstSeen(cu, i)
                    /\ DistinctUpTo(cu, i) = n
           /\ val[1].status = "ok" =>
                Len(imgs) = Min(ImageLimit, DistinctUpTo(cu, Len(cu)))

\* the limit was reached with URLs left over, and a later locator matched
\* elements an earlier one had matched
C11_Witness ==
    /\ fn = "extract_images" /\ val # <<>>
    /\ val[1].status = "ok"
    /\ Len(val[1].images) = ImageLimit
    /\ DistinctUpTo(CandidateUrls(arg), Len(CandidateUrls(arg))) > ImageLimit
    /\ arg[1] = [i \in 1..3 |-> Img(0, i)]
    /\ arg[2] = Run(1, MaxRun)

-----------------------------------------------------------------------------
(* CarListing construction on bounded arguments *)

InitCarListing ==
    /\ cfg = [max_concurrent_pages |-> 1, max_retries |-> 1,
              max_listings_per_page |-> MaxTasks, save_images |-> FALSE]
    /\ main = "start"
    /\ orchIdle
    /\ urlIdle
    /\ exIdle
    /\ fn = "CarListing"
    /\ arg \in CarListingArgs
    /\ val = <<>>

\* CarListing(...)
RunCarListing ==
    /\ fn = "CarListing"
    /\ val = <<>>
    /\ val' = <<ConstructCarListing(arg)>>
    /\ UNCHANGED <<orchVars, urlVars, exVars, fn, arg>>

NextCarListing == RunCarListing

SpecCarListing == InitCarListing /\ [][NextCarListing]_vars

\* the arguments the claim says are refused
C14_Refused(a) ==
    \/ a.year < 1900 \/ a.year > 2030
    \/ \E p \in a.price : p < 0
    \/ \E m \in a.mileage : m < 0
    \/ \E v \in a.vin :
        \/ Len(v) # 17
        \/ \E i \in 1..Len(v) : v[i] \in {"I", "O", "Q", "i", "o", "q"}

\* C14: construction fails whenever the year is outside 1900..2030, the
\* price or the mileage is negative, or a VIN is given that has not 17
\* characters or holds I, O or Q in either case; a record constructed with
\* a VIN stores the VIN uppercased.
C14_RefusedOrUppercased ==
    (fn = "CarListing" /\ val # <<>>) =>
        /\ C14_Refused(arg) => ~val[1].ok
        /\ (val[1].ok /\ arg.vin # {}) =>
             \A v \in arg.vin :
                val[1].vin = {[i \in 1..Len(v) |->
                                 IF v[i] = "a" THEN "A" ELSE v[i]]}

\* a 17-character VIN with a lower-case i, everything else valid: refused
C14_Witness ==
    /\ fn = "CarListing" /\ val # <<>>
    /\ arg.make = 1 /\ arg.year = 2030
    /\ arg.price = {18500000} /\ arg.mileage = {0}
    /\ arg.vin = {Padded(<<"a", "i">>, 17)}
    /\ ~val[1].ok

-----------------------------------------------------------------------------
(* ScraperConfig construction on bounded arguments *)

InitScraperConfig ==
    /\ cfg = [max_concurrent_pages |-> 1, max_retries |-> 1,
              max_listings_per_page |-> MaxTasks, save_images |-> FALSE]
    /\ main = "start"
    /\ orchIdle
    /\ urlIdle
    /\ exIdle
    /\ fn = "ScraperConfig"
    /\ arg \in ScraperConfigArgs
    /\ val = <<>>

\* ScraperConfig(...)
RunScraperConfig ==
    /\ fn = "ScraperConfig"
    /\ val = <<>>
    /\ val' = <<ConstructScraperConfig(arg)>>
    /\ UNCHANGED <<orchVars, urlVars, exVars, fn, arg>>

NextScraperConfig == RunScraperConfig

SpecScraperConfig == InitScraperConfig /\ [][NextScraperConfig]_vars

\* C15: ScraperConfig construction succeeds only when the concurrency
\* limit is in 1..10, the retry budget is in 0..10, the per-page cap is at
\* least 1 and the minimum delay is not greater than the maximum delay.
C15_ConstructsExactlyValid ==
    (fn = "ScraperConfig" /\ val # <<>>) =>
        (val[1].ok =>
            /\ arg.max_concurrent_pages \in 1..10
            /\ arg.max_retries \in 0..10
            /\ arg.max_listings_per_page >= 1
            /\ arg.min_delay_seconds <= arg.max_delay_seconds)

-----------------------------------------------------------------------------
(* _parse_title on bounded headings *)

InitTitle ==
    /\ cfg = [max_concurrent_pages |-> 1, max_retries |-> 1,
              max_listings_per_page |-> MaxTasks, save_images |-> FALSE]
    /\ main = "start"
    /\ orchIdle
    /\ urlIdle
    /\ exIdle
    /\ fn = "parse_title"
    /\ arg \in Titles
    /\ val = <<>>

\* line 41 of listing_extractor.py: year, make, model = self._parse_title(title)
RunParseTitle ==
    /\ fn = "parse_title"
    /\ val = <<>>
    /\ val' = <<ParseTitle(arg)>>
    /\ UNCHANGED <<orchVars, urlVars, exVars, fn, arg>>

NextTitle == RunParseTitle

SpecTitle == InitTitle /\ [][NextTitle]_vars

\* the places of t where a token starts and where one ends
TokenStarts(t) ==
    {i \in 1..Len(t) : t[i] # " " /\ (i = 1 \/ t[i - 1] = " ")}

TokenEnds(t) ==
    {i \in 1..Len(t) : t[i] # " " /\ (i = Len(t) \/ t[i + 1] = " ")}

\* the k-th smallest member of a set of numbers
Kth(S, k) == CHOOSE i \in S : Cardinality({j \in S : j < i}) = k - 1

\* the k-th whitespace-separated token of t
Token(t, k) == SubSeq(t, Kth(TokenStarts(t), k), Kth(TokenEnds(t), k))

NumTokens(t) == Cardinality(TokenStarts(t))

RECURSIVE TokensFrom(_, _)
\* the tokens k, k+1, ... of t with one space between them
TokensFrom(t, k) ==
    IF k > NumTokens(t) THEN <<>>
    ELSE IF k = NumTokens(t) THEN Token(t, k)
    ELSE Token(t, k) \o <<" ">> \o TokensFrom(t, k + 1)

\* the first token of t is made of exactly four digits
LeadingFourDigitToken(t) ==
    /\ NumTokens(t) >= 1
    /\ Len(Token(t, 1)) = 4
    /\ \A i \in 1..4 : IsDigit(Token(t, 1)[i])

\* make and model are as the claim states them
C16_MakeModelAsStated ==
    (fn = "parse_title" /\ val # <<>>) =>
        IF NumTokens(arg) >= 3
        THEN val[1].make = Token(arg, 2) /\ val[1].model = TokensFrom(arg, 3)
        ELSE val[1].make = Unknown /\ val[1].model = Unknown

\* the year is as the claim states it
C16_YearAsStated ==
    (fn = "parse_title" /\ val # <<>>) =>
        val[1].year = IF LeadingFourDigitToken(arg)
                      THEN IntOf(Token(arg, 1)) ELSE 2020

\* C16: _parse_title returns as year the leading 4-digit token, or 2020
\* when the heading does not start with one; with at least 3 tokens the
\* make is the second token and the model the remaining tokens joined by
\* single spaces, with fewer both are "Unknown".
C16_ParseTitleAsStated == C16_YearAsStated /\ C16_MakeModelAsStated

-----------------------------------------------------------------------------
(* _parse_price and _parse_mileage on bounded texts *)

InitNumber ==
    /\ cfg = [max_concurrent_pages |-> 1, max_retries |-> 1,
              max_listings_per_page |-> MaxTasks, save_images |-> FALSE]
    /\ main = "start"
    /\ orchIdle
    /\ urlIdle
    /\ exIdle
    /\ fn \in {"parse_price", "parse_mileage"}
    /\ arg \in NumberTexts
    /\ val = <<>>

\* line 139 of listing_extractor.py: return self._parse_price(price_text)
RunParsePrice ==
    /\ fn = "parse_price"
    /\ val = <<>>
    /\ val' = <<ParsePrice(arg)>>
    /\ UNCHANGED <<orchVars, urlVars, exVars, fn, arg>>

\* line 165: mileage = self._parse_mileage(text)
RunParseMileage ==
    /\ fn = "parse_mileage"
    /\ val = <<>>
    /\ val' = <<ParseMileage(arg)>>
    /\ UNCHANGED <<orchVars, urlVars, exVars, fn, arg>>

NextNumber == RunParsePrice \/ RunParseMileage

SpecNumber == InitNumber /\ [][NextNumber]_vars

\* the places of t that hold a digit
DigitPlaces(t) == {i \in 1..Len(t) : IsDigit(t[i])}

\* the number formed by the first run of digits of t, thousands separators
\* removed: from the first digit to the last place before a character that
\* is neither a digit nor a comma
FirstNumber(t) ==
    LET i == CHOOSE k \in DigitPlaces(t) : \A j \in DigitPlaces(t) : k <= j
        e == CHOOSE k \in i..Len(t) :
                /\ \A j \in i..k : IsDigit(t[j]) \/ t[j] = ","
                /\ k = Len(t) \/ ~(IsDigit(t[k + 1]) \/ t[k + 1] = ",")
    IN IntOf(SelectSeq(SubSeq(t, i, e), IsDigit))

\* C17: price and mileage parsing return the number formed by the first
\* run of digits with the separators removed, and return unset, without
\* raising, when the text holds no digit.
C17_FirstNumberOrUnset ==
    (fn \in {"parse_price", "parse_mileage"} /\ val # <<>>) =>
        IF DigitPlaces(arg) = {}
        THEN val[1] = [kind |-> "none", v |-> 0]
        ELSE val[1] = [kind |-> "value", v |-> FirstNumber(arg)]

-----------------------------------------------------------------------------
(* _extract_condition on bounded page contents *)

InitCondition ==
    /\ cfg = [max_concurrent_pages |-> 1, max_retries |-> 1,
              max_listings_per_page |-> MaxTasks, save_images |-> FALSE]
    /\ main = "start"
    /\ orchIdle
    /\ urlIdle
    /\ exIdle
    /\ fn = "extract_condition"
    /\ arg \in ConditionArgs
    /\ val = <<>>

\* line 46 of listing_extractor.py:
\* condition = await self._extract_condition(page, year)
RunExtractCondition ==
    /\ fn = "extract_condition"
    /\ val = <<>>
    /\ val' = <<ExtractCondition(arg.content, arg.year)>>
    /\ UNCHANGED <<orchVars, urlVars, exVars, fn, arg>>

NextCondition == RunExtractCondition

SpecCondition == InitCondition /\ [][NextCondition]_vars

\* the content holds one of the words in some case
Mentions(content, spellings) ==
    \E i \in 1..Len(content) : content[i] \in spellings

\* C18: _extract_condition returns certified when the lower-cased text
\* holds "certified" and "pre-owned"; otherwise new when it holds "new" and
\* the year is at least 2024; otherwise used.
C18_ConditionAsStated ==
    (fn = "extract_condition" /\ val # <<>>) =>
        LET cert == /\ Mentions(arg.content,
                                {"certified", "Certified", "CERTIFIED"})
                    /\ Mentions(arg.content, {"pre-owned", "Pre-Owned"})
            new == Mentions(arg.content, {"new", "New"}) /\ arg.year >= 2024
        IN /\ val[1] \in {"certified", "new", "used"}
           /\ val[1] = "certified" <=> cert
           /\ val[1] = "new" <=> (~cert /\ new)
           /\ val[1] = "used" <=> (~cert /\ ~new)

\* both rules apply, in mixed case, and certified is returned
C18_Witness ==
    /\ fn = "extract_condition" /\ val # <<>>
    /\ arg.content = <<"New", "CERTIFIED", "Pre-Owned">>
    /\ arg.year = 2024
    /\ val[1] = "certified"

-----------------------------------------------------------------------------
(* Image download inside a listing task *)

\* the step handles one image of task t's record, and its fetch or write
\* fails
ImageFails(t) ==
    /\ pc[t] = "download"
    /\ Len(dl'[t]) = Len(dl[t]) + 1
    /\ dl'[t][Len(dl'[t])].fault = "image"

\* the step takes task t out of the get_page block with the record in hand
\* and no fault of the page or context close
LeavesWithRecord(t) ==
    /\ pc[t] = "exit" /\ pc'[t] # "exit"
    /\ IsCarListing(ret[t])
    /\ leaked' = leaked

\* C19: with save_images, a failure fetching or writing one image does not
\* fail the listing or the batch and starts no retry: the task goes on to
\* the next image (or to the return after the last one) with its record and
\* its attempt count, no other task is touched, local_path is set on
\* exactly the images that succeeded, and the record is returned.
C19_ImageFaultTolerated ==
    [][\A t \in Tasks :
        /\ ImageFails(t) =>
            /\ ret'[t] = ret[t] /\ IsCarListing(ret[t])
            /\ attempts'[t] = attempts[t]
            /\ ~dl'[t][Len(dl'[t])].local_path
            /\ pc'[t] = IF Len(dl'[t]) < Len(RecordImages)
                        THEN "download" ELSE "exit"
            /\ \A u \in Tasks \ {t} :
                /\ pc'[u] = pc[u] /\ result'[u] = result[u]
                /\ ret'[u] = ret[u] /\ dl'[u] = dl[u]
        /\ (LeavesWithRecord(t) /\ cfg.save_images) =>
            /\ Len(dl[t]) = Len(RecordImages)
            /\ \A i \in 1..Len(dl[t]) :
                dl[t][i].local_path <=> dl[t][i].fault = "none"
            /\ pc'[t] = "done" /\ result'[t] = ret[t]
            /\ attempts'[t] = attempts[t]
      ]_vars

\* Two tasks returned their records in their first attempt, the first with
\* its first image failed and its second stored, while the second task was
\* still downloading
C19_Witness ==
    /\ cfg.save_images
    /\ Len(pc) = 2
    /\ pc[1] = "exit" /\ attempts[1] = 1 /\ IsCarListing(ret[1])
    /\ dl[1] = <<[fault |-> "image", local_path |-> FALSE],
                 [fault |-> "none", local_path |-> TRUE]>>
    /\ pc[2] = "download" /\ Len(dl[2]) = 1

-----------------------------------------------------------------------------
(* Validation faults and navigation faults in a listing task *)

\* the step takes task t out of the get_page block, page and context
\* closing without fault, after the body of the attempt ended the given way
LeavesAfter(t, way) ==
    /\ pc[t] = "exit" /\ pc'[t] # "exit"
    /\ last[t] = way
    /\ leaked' = leaked

-----------------------------------------------------------------------------
(* The per-page cap *)

\* C21: scrape_search_page launches min(D, max_listings_per_page) tasks for
\* D discovered URLs, the tasks of the first URLs of the discovery result in
\* discovery order, and the URLs the tasks work on never change afterwards.
C21_LaunchesFirstUrlsUpToCap ==
    [][/\ (main = "search" /\ main' = "search_exit_ok") =>
            listing_urls' =
                [i \in 1..Min(Len(discovered'), cfg.max_listings_per_page)
                    |-> discovered'[i]]
       /\ (main = "search_exit_ok" /\ main' = "gather") =>
            /\ DOMAIN pc' = 1..Min(Len(discovered), cfg.max_listings_per_page)
            /\ listing_urls' = listing_urls
            /\ \A t \in DOMAIN pc' : pc'[t] = "pending"
       /\ main \in {"gather", "returned"} =>
            /\ listing_urls' = listing_urls
            /\ DOMAIN pc' = DOMAIN pc
      ]_vars

\* more URLs were discovered than the cap allows, and the list was cut
C21_Witness ==
    /\ main = "search_exit_ok"
    /\ Len(discovered) > cfg.max_listings_per_page
    /\ Len(listing_urls) = cfg.max_listings_per_page

-----------------------------------------------------------------------------
(* The structural locators of URL discovery *)

\* the structural selectors that match an element of the page
MatchingSelectors == {k \in 1..4 : QuerySelectorAll(page, k) # <<>>}

\* the hrefs of the matches of selector k, made absolute, in document order
TargetsOf(k) ==
    LET m == QuerySelectorAll(page, k)
        WithHref(a) == a.href # <<>>
        h == SelectSeq(m, WithHref)
    IN [i \in 1..Len(h) |-> Normalised(h[i].href)]

\* C22: the link targets come from the matches of the first structural
\* locator that matches anything, and from no later locator.
C22_FirstMatchingLocatorOnly ==
    (uphase = "extracted" /\ MatchingSelectors # {}) =>
        LET k == CHOOSE x \in MatchingSelectors :
                    \A y \in MatchingSelectors : x <= y
        IN \A i \in 1..Len(urls) : urls[i] \in Range(TargetsOf(k))

-----------------------------------------------------------------------------
(* The locator chains on bounded pages *)

InitChain ==
    /\ cfg = [max_concurrent_pages |-> 1, max_retries |-> 1,
              max_listings_per_page |-> MaxTasks, save_images |-> FALSE]
    /\ main = "start"
    /\ orchIdle
    /\ urlIdle
    /\ exIdle
    /\ fn \in ChainFields
    /\ \E f \in ChainFields : f = fn /\ arg \in ChainPages(f)
    /\ val = <<>>

\* lines 44-50 of listing_extractor.py: price = await self._extract_price(page)
\* and the like
RunExtractField ==
    /\ fn \in ChainFields
    /\ val = <<>>
    /\ val' = <<ExtractField(fn, arg)>>
    /\ UNCHANGED <<orchVars, urlVars, exVars, fn, arg>>

NextChain == RunExtractField

SpecChain == InitChain /\ [][NextChain]_vars

\* text t is usable for a field: it gives a number for price and mileage,
\* and is not empty for the text fields
Usable(field, t) ==
    IF field \in {"price", "mileage"}
    THEN \E i \in 1..Len(t) : IsDigit(t[i])
    ELSE t # <<>>

\* the locators of the chain that yield usable text
UsableLocators ==
    {k \in 1..Len(arg.elems) : \E t \in arg.elems[k] : Usable(fn, t)}

\* C23: each locator-chain field takes its value from the first locator in
\* priority order that yields non-empty usable text, whatever the locators
\* before it matched, and is unset when no locator does (for mileage, when
\* the page content gives no figure either).
C23_FirstUsableLocator ==
    (fn \in ChainFields /\ val # <<>>) =>
        IF UsableLocators # {}
        THEN LET k == CHOOSE x \in UsableLocators :
                        \A y \in UsableLocators : x <= y
                 t == CHOOSE x \in arg.elems[k] : TRUE
             IN IF fn \in {"price", "mileage"}
                THEN val[1] = [kind |-> "value", v |-> FirstNumber(t)]
                ELSE val[1].kind = "text" /\ val[1].v = t
        ELSE (fn # "mileage" \/ arg.content = {}) => val[1].kind = "none"

-----------------------------------------------------------------------------
(* The order of the steps of one attempt *)

\* the places a task may move to from each place
StepsAfter(p) ==
    CASE p = "pending" -> {"navigate", "backoff", "done"}
      [] p = "backoff" -> {"navigate", "backoff", "done"}
      [] p = "navigate" -> {"extract", "exit"}
      [] p = "extract" -> {"download", "exit"}
      [] p = "download" -> {"download", "exit"}
      [] p = "exit" -> {"backoff", "done"}
      [] p = "done" -> {}

\* C24: within an attempt the steps follow each other in the order open
\* session, navigate and delay, extract, download, close session: a task
\* navigates only in a session it has just opened, extracts only after the
\* navigation returned, downloads only after extract_listing returned a
\* record, and closes its session only after the download ended (all images
\* handled, or a fault left it) or was not started.
C24_StepsInOrder ==
    [][\A t \in Tasks :
        /\ pc'[t] # pc[t] => pc'[t] \in StepsAfter(pc[t])
        /\ dl'[t] # dl[t] => pc[t] \in {"extract", "download", "exit"}
        /\ (pc'[t] = "navigate" /\ pc[t] # "navigate") =>
            (~InBlock(t) /\ attempts'[t] = attempts[t] + 1)
        /\ (pc'[t] = "download" /\ pc[t] # "download") =>
            (pc[t] = "extract" /\ IsCarListing(ret'[t]) /\ dl'[t] = <<>>)
        /\ (pc[t] = "download" /\ pc'[t] = "exit") =>
            \/ Len(dl'[t]) = Len(RecordImages)
            \/ IsException(ret'[t])
        /\ (InBlock(t) /\ ~InBlock(t)') => pc[t] = "exit"
        /\ (pc[t] = "exit" /\ IsCarListing(ret[t]) /\ cfg.save_images) =>
            Len(dl[t]) = Len(RecordImages)
      ]_vars

\* a task about to close its session in its second attempt, with a record
\* and both images handled
C24_Witness ==
    \E t \in Tasks :
        /\ pc[t] = "exit" /\ attempts[t] = 2
        /\ IsCarListing(ret[t])
        /\ Len(dl[t]) = Len(RecordImages)

-----------------------------------------------------------------------------
(* The backoff between attempts *)

\* 2 to the power n, by repeated doubling
RECURSIVE Doubled(_)
Doubled(n) == IF n = 0 THEN 1 ELSE 2 * Doubled(n - 1)

\* C25: a task that enters its backoff after the failure of the attempt
\* with zero-based index i sleeps 2^i seconds (1, 2, 4, ...); every backoff
\* is followed by another attempt, so there is none after the last attempt
\* the loop makes; outside its backoff a task sleeps for no time.
C25_ExponentialBackoff ==
    [][\A t \in Tasks :
        /\ (/\ pc'[t] = "backoff"
            /\ pc[t] # "backoff" \/ attempts'[t] # attempts[t]) =>
            sleep'[t] = Doubled(attempts'[t] - 1)
        /\ pc'[t] # "backoff" => sleep'[t] = 0
        /\ pc[t] = "backoff" =>
            /\ attempts[t] < cfg.max_retries
            /\ pc'[t] # pc[t] => attempts'[t] = attempts[t] + 1
      ]_vars

\* the task sleeps 4 seconds after its third attempt failed
C25_Witness ==
    /\ Len(pc) = 1
    /\ pc[1] = "backoff" /\ attempts[1] = 3 /\ sleep[1] = 4

-----------------------------------------------------------------------------
(* Termination *)

\* the tasks that hold a slot of the semaphore
SlotHolders == {t \in Tasks : pc[t] \notin {"pending", "done"}}

\* C26: with every await ending and a fair event loop, once the tasks are
\* launched every waiting task is admitted, every task ends, every slot is
\* given back (the free slots and the slots held always add up to
\* max_concurrent_pages), and scrape_search_page returns.
C26_EveryTaskEndsAndCallReturns ==
    /\ [](main = "gather" =>
            sem + Cardinality(SlotHolders) = cfg.max_concurrent_pages)
    /\ (main = "gather") ~> (\A t \in Tasks : pc[t] # "pending")
    /\ (main = "gather") ~>
            (/\ main = "returned"
             /\ \A t \in Tasks : pc[t] = "done"
             /\ sem = cfg.max_concurrent_pages)

\* the call returned with one slot for two tasks, of which the first used
\* up its attempts and the second succeeded
C26_Witness ==
    /\ main = "returned"
    /\ cfg.max_concurrent_pages = 1 /\ cfg.max_retries = 2
    /\ Len(pc) = 2
    /\ result[1] = NoneVal /\ attempts[1] = 2
    /\ IsCarListing(result[2])
    /\ sem = 1

-----------------------------------------------------------------------------
(* Order of the returned list *)

\* the source URLs of the returned records
ReturnedUrls == [i \in 1..Len(listings) |-> listings[i].url]

\* a is b with some of its entries left out
RECURSIVE IsSubsequence(_, _)
IsSubsequence(a, b) ==
    IF a = <<>> THEN TRUE
    ELSE IF b = <<>> THEN FALSE
    ELSE IF Head(a) = Head(b) THEN IsSubsequence(Tail(a), Tail(b))
    ELSE IsSubsequence(a, Tail(b))

\* C27: the source URLs of the records scrape_search_page returns are the
\* truncated discovered list with the failed tasks' URLs left out, in the
\* same order, whatever order the tasks finished in.
C27_ReturnedUrlsInDiscoveryOrder ==
    main = "returned" =>
        /\ IsSubsequence(ReturnedUrls, listing_urls)
        /\ Len(ReturnedUrls) = Cardinality(Succeeded)

\* both tasks succeeded, the second one first
C27_Witness ==
    /\ main = "returned"
    /\ completed = <<2, 1>>
    /\ Len(listings) = 2

-----------------------------------------------------------------------------
(* Backoff, sessions and the gate *)

\* the tasks sleeping in line 154
Sleepers == {t \in Tasks : pc[t] = "backoff"}

\* task t goes to sleep in this step (from an attempt, or from a sleep
\* straight into the next one when get_page faults on entry)
GoesToSleep(t) ==
    /\ pc'[t] = "backoff"
    /\ pc[t] # "backoff" \/ attempts'[t] # attempts[t]

\* a sleeping task is outside every get_page block and still has its slot
SleepersHoldSlots ==
    /\ \A t \in Sleepers : ~InBlock(t)
    /\ main = "gather" => sem + Cardinality(Sleepers) <= cfg.max_concurrent_pages

\* with every slot held by a sleeping task, no waiting task is admitted
NoAdmissionWhileAllSleep ==
    Cardinality(Sleepers) = cfg.max_concurrent_pages =>
        \A u \in Tasks : pc[u] = "pending" => pc'[u] = "pending"

\* C28: a task that goes to sleep in backoff leaves no session open behind
\* it, it keeps its slot while it sleeps, and with all K slots held by
\* sleeping tasks no waiting task is admitted.
C28_SleeperHoldsSlotWithoutSession ==
    [][/\ \A t \in Tasks : GoesToSleep(t) => leaked' = leaked
       /\ SleepersHoldSlots
       /\ NoAdmissionWhileAllSleep]_vars

-----------------------------------------------------------------------------
(* No attempts at all *)

\* with max_retries = 0 a task is waiting for its slot or has returned None:
\* it made no attempt, entered no get_page block and navigated nowhere
NeverAttempts(t) ==
    /\ pc[t] \in {"pending", "done"}
    /\ attempts[t] = 0
    /\ hist[t] = "none"
    /\ pc[t] = "done" => result[t] = NoneVal

-----------------------------------------------------------------------------
(* A fault on the search page *)

\* the fault raised inside the block of line 72 leaves scrape_search_page:
\* no second try of the search page, no semaphore, no task
SearchFaultPropagates ==
    /\ main = "search_exit_exc" => main' = "raised" /\ pc' = <<>>
    /\ main = "raised" => main' = "raised" /\ pc' = <<>> /\ leaked' = leaked

\* leaving the block closed the search page's context
SearchSessionClosed ==
    main = "search_exit_exc" => leaked' = leaked /\ ~SearchInBlock'

\* C30: a fault of the search page's navigation or reading reaches the
\* caller of scrape_search_page without a retry, with the search session
\* closed, no listing task launched and no listing session opened.
C30_SearchFaultClosesAndPropagates ==
    [][SearchFaultPropagates /\ SearchSessionClosed]_vars

====
